---- MODULE Spec2Model ----
(***************************************************************************)
(* Model of tools/kmsg-mcp.py: an MCP stdio server that turns tools/call   *)
(* requests into runs of the external kmsg program.                        *)
(*                                                                         *)
(* Python values are encoded as records [kind, s, n]: kind is the Python   *)
(* type ("absent" for a key that is not in the dict), s the text of a str  *)
(* (or the decimal text of an int), n the number of an int/bool, and for a *)
(* float twice its value (so 5.5 is n = 11).                               *)
(* Process output is a sequence of phrases (Text); substring search is     *)
(* membership of a phrase.                                                 *)
(***************************************************************************)
EXTENDS Integers, Sequences, FiniteSets, TLC

VARIABLES initialized, shutdown, defaults, pc, request, entered, ctx, proc,
          runs, raised, written, lastRead, uncaught, pipe, sent, received

\* what the framing specification changes
framing == <<pipe, sent, received>>

vars == <<initialized, shutdown, defaults, pc, request, entered, ctx, proc,
          runs, raised, written, lastRead, uncaught, pipe, sent, received>>

-----------------------------------------------------------------------------
(* Bounds of the model *)

MaxId == 1
MaxLatency == 1
MaxFrames == 3

-----------------------------------------------------------------------------
(* Python values *)

Absent == [kind |-> "absent", s |-> "", n |-> 0]
PyNone == [kind |-> "none", s |-> "", n |-> 0]
PyStr(t) == [kind |-> "str", s |-> t, n |-> 0]
PyInt(i) == [kind |-> "int", s |-> ToString(i), n |-> i]
PyFloat2(twice) == [kind |-> "float", s |-> "", n |-> twice]
PyBool(b) == [kind |-> "bool", s |-> IF b THEN "True" ELSE "False", n |-> IF b THEN 1 ELSE 0]

\* dict.get(key, default): the default only replaces a missing key
Get(v, default) == IF v.kind = "absent" THEN default ELSE v

\* str(x)
Str(v) ==
    CASE v.kind = "str" -> v.s
      [] v.kind = "int" -> v.s
      [] v.kind = "bool" -> v.s
      [] v.kind = "none" -> "None"
      [] OTHER -> ""

\* str.strip() on the strings of the model
Strip(t) == IF t \in {"", " ", "  "} THEN "" ELSE t

\* bool(x)
Bool(v) ==
    CASE v.kind = "bool" -> v.n = 1
      [] v.kind = "int" -> v.n # 0
      [] v.kind = "float" -> v.n # 0
      [] v.kind = "str" -> v.s # ""
      [] OTHER -> FALSE

\* strings that int() parses, with their value
NumericStrings == {"7"}
IntOfString(t) == 7

\* int(x) raises TypeError/ValueError on None and on non-numeric text
IntRaises(v) ==
    \/ v.kind = "none"
    \/ v.kind = "str" /\ v.s \notin NumericStrings

\* int(x) where it does not raise; a float is truncated toward zero
ToInt(v) ==
    CASE v.kind = "int" -> v.n
      [] v.kind = "bool" -> v.n
      [] v.kind = "float" -> IF v.n >= 0 THEN v.n \div 2 ELSE -((-v.n) \div 2)
      [] v.kind = "str" -> IntOfString(v.s)
      [] OTHER -> 0

Min(a, b) == IF a < b THEN a ELSE b
Max(a, b) == IF a > b THEN a ELSE b

LIMIT_MIN == 1
LIMIT_MAX == 100
LIMIT_DEFAULT == 20

ClampLimitOff(limit) == Max(LIMIT_MIN, Min(limit, LIMIT_MAX - 1))
\* limit = max(1, min(limit, 100))
ClampLimit(limit) == Max(LIMIT_MIN, Min(limit, LIMIT_MAX))

-----------------------------------------------------------------------------
(* Text of process output and the error classifier *)

NL == "\n"

\* str.lower() of a phrase
Lower(p) ==
    CASE p = "Not Found" -> "not found"
      [] p = "No such file or directory" -> "no such file or directory"
      [] p = "SEARCH_MISS" -> "search_miss"
      [] p = "WINDOW_NOT_READY" -> "window_not_ready"
      [] p = "Accessibility" -> "accessibility"
      [] OTHER -> p

Contains(text, phrase) == \E i \in 1..Len(text) : text[i] = phrase
ContainsLower(text, phrase) == \E i \in 1..Len(text) : Lower(text[i]) = phrase

\* f"{stdout}\n{stderr}"
Combined(r) == r.stdout \o <<NL>> \o r.stderr

\* the search-miss marker is tested first
ExtractSearchMissFirst(combined_text) ==
    IF Contains(combined_text, "SEARCH_MISS") THEN "CHAT_NOT_FOUND"
    ELSE IF ContainsLower(combined_text, "no such file or directory")
            \/ ContainsLower(combined_text, "not found") THEN "KMSG_BIN_NOT_FOUND"
    ELSE IF Contains(combined_text, "WINDOW_NOT_READY") THEN "KAKAO_WINDOW_UNAVAILABLE"
    ELSE IF Contains(combined_text, "Accessibility")
            \/ Contains(combined_text, "son-swiun sayong") THEN "ACCESSIBILITY_PERMISSION_DENIED"
    ELSE "UNKNOWN_EXEC_FAILURE"

\* "son-swiun sayong" stands for the Korean phrase of line 355 (Accessibility)
_extract_error_code(combined_text) ==
    IF ContainsLower(combined_text, "no such file or directory")
       \/ ContainsLower(combined_text, "not found") THEN "KMSG_BIN_NOT_FOUND"
    ELSE IF Contains(combined_text, "WINDOW_NOT_READY") THEN "KAKAO_WINDOW_UNAVAILABLE"
    ELSE IF Contains(combined_text, "SEARCH_MISS") THEN "CHAT_NOT_FOUND"
    ELSE IF Contains(combined_text, "Accessibility")
            \/ Contains(combined_text, "son-swiun sayong") THEN "ACCESSIBILITY_PERMISSION_DENIED"
    ELSE "UNKNOWN_EXEC_FAILURE"

_map_hint(code) ==
    CASE code = "KMSG_BIN_NOT_FOUND" -> "Set a valid KMSG_BIN path or install kmsg into PATH."
      [] code = "KAKAO_WINDOW_UNAVAILABLE" -> "KakaoTalk window was not ready. Open KakaoTalk and retry (or enable deep_recovery)."
      [] code = "CHAT_NOT_FOUND" -> "Chat was not found in search results. Verify chat name spacing and visibility."
      [] code = "ACCESSIBILITY_PERMISSION_DENIED" -> "Grant Accessibility permission in System Settings > Privacy & Security > Accessibility."
      [] OTHER -> "Check raw_stdout/raw_stderr and rerun with trace_ax=true for details."

-----------------------------------------------------------------------------
(* KmsgRunner: results of a process run *)

KMSG_BIN == "kmsg"

EXIT_OSERROR == 127
EXIT_TIMEOUT == 124

CommandResult(returncode, stdout, stderr, latency_ms, timed_out) ==
    [returncode |-> returncode, stdout |-> stdout, stderr |-> stderr,
     latency_ms |-> latency_ms, timed_out |-> timed_out]

NoResult == CommandResult(0, <<>>, <<>>, 0, FALSE)

\* except OSError: the program could not be started
OSErrorResult(exc, latency_ms) == CommandResult(EXIT_OSERROR, <<>>, exc, latency_ms, FALSE)

\* communicate(timeout=...) returned
ExitedResult(returncode, stdout, stderr, latency_ms) ==
    CommandResult(returncode, stdout, stderr, latency_ms, FALSE)

TimedOutResultUnflagged(stdout, stderr, latency_ms) ==
    CommandResult(EXIT_TIMEOUT, stdout, stderr, latency_ms, FALSE)
\* except subprocess.TimeoutExpired: after kill() and the draining communicate()
TimedOutResult(stdout, stderr, latency_ms) ==
    CommandResult(EXIT_TIMEOUT, stdout, stderr, latency_ms, TRUE)

\* timeouts in milliseconds
VERSION_TIMEOUT == 2000
STATUS_TIMEOUT == 4000
READ_TIMEOUT == 8000
READ_DEEP_TIMEOUT == 15000
SEND_TIMEOUT == 10000
SEND_DEEP_TIMEOUT == 18000
IMAGE_TIMEOUT == 12000
IMAGE_DEEP_TIMEOUT == 20000

-----------------------------------------------------------------------------
(* Envelopes and JSON-RPC messages *)

_error_payload(code, message, hint, raw_stdout, raw_stderr, latency_ms) ==
    [ok |-> FALSE,
     error |-> [code |-> code, message |-> message, hint |-> hint,
                raw_stdout |-> raw_stdout, raw_stderr |-> raw_stderr],
     meta |-> [latency_ms |-> latency_ms]]

NullId == "None"
Ids == {NullId} \cup {ToString(i) : i \in 1..MaxId}

_json_rpc_error(req_id, code, message, data) ==
    [jsonrpc |-> "2.0", id |-> req_id,
     error |-> [code |-> code, message |-> message, data |-> data]]

_json_rpc_result(req_id, result) ==
    [jsonrpc |-> "2.0", id |-> req_id, result |-> result]

\* json.dumps(result_obj, ...): the serialized text of an object
JsonDumps(obj) == [json_text_of |-> obj]

_make_text_content(text) == <<[type |-> "text", text |-> text]>>

NOT_INITIALIZED == -32002
METHOD_NOT_FOUND == -32601
INVALID_PARAMS == -32602
INTERNAL_ERROR == -32000

\* what a handler does next: return a result, return None, raise MCPError, raise
\* another exception, or block in KmsgRunner.run
Result(body) == [kind |-> "result", body |-> body]
ReturnNone == [kind |-> "none"]
RaiseMCP(code, message) == [kind |-> "raise", code |-> code, message |-> message]
RaiseOther(detail) == [kind |-> "exception", detail |-> detail]
Envelope(env) == [kind |-> "envelope", env |-> env]
Run(c) == [kind |-> "run", ctx |-> c]

NoCtx ==
    [stage |-> "none", cmd |-> <<>>, timeout_ms |-> 0, chat |-> "",
     deep_recovery |-> FALSE, trace_ax |-> FALSE, first |-> NoResult]

Ctx(stage, cmd, timeout_ms, chat, deep_recovery, trace_ax, first) ==
    [stage |-> stage, cmd |-> cmd, timeout_ms |-> timeout_ms, chat |-> chat,
     deep_recovery |-> deep_recovery, trace_ax |-> trace_ax, first |-> first]

-----------------------------------------------------------------------------
(* Tool Invocation Layer *)

\* os.path.isfile(image_path): the files that exist
ExistingFiles == {"/img.png"}
isfile(path) == path \in ExistingFiles

\* the optional flags appended to cmd
FlagArgs(deep_recovery, keep_window, trace_ax) ==
    (IF deep_recovery THEN <<"--deep-recovery">> ELSE <<>>)
    \o (IF keep_window THEN <<"--keep-window">> ELSE <<>>)
    \o (IF trace_ax THEN <<"--trace-ax">> ELSE <<>>)

\* json.loads(first.stdout) on the documents of the model
JSON_OBJECT_TEXT == "{\"chat\": \"Alice\", \"count\": 2, \"messages\": [1, 2]}"
JSON_ARRAY_TEXT == "[]"
PyList(len) == [kind |-> "list", s |-> "", n |-> len]
JsonDecodes(text) == text \in {<<JSON_OBJECT_TEXT>>, <<JSON_ARRAY_TEXT>>}
JsonLoads(text) ==
    IF text = <<JSON_OBJECT_TEXT>>
    THEN [kind |-> "object", chat |-> PyStr("Alice"), fetched_at |-> Absent,
          count |-> PyInt(2), messages |-> PyList(2)]
    ELSE [kind |-> "array", chat |-> Absent, fetched_at |-> Absent,
          count |-> Absent, messages |-> Absent]

\* meta of a success envelope: stderr is attached when tracing and not blank
TraceMeta(meta, trace_ax, stderr) ==
    IF trace_ax /\ Len(stderr) > 0
    THEN [f \in DOMAIN meta \cup {"stderr_trace"} |->
             IF f = "stderr_trace" THEN stderr ELSE meta[f]]
    ELSE meta

\* _call_kmsg_read, lines 370-409: up to the first run
_call_kmsg_read(arguments, defs) ==
    LET chat == Strip(Str(Get(arguments.chat, PyStr(""))))
        raw_limit == Get(arguments.limit, PyInt(LIMIT_DEFAULT))
        limit == ClampLimit(ToInt(raw_limit))
        deep_recovery == Bool(Get(arguments.deep_recovery, PyBool(defs.deep_recovery)))
        keep_window == Bool(Get(arguments.keep_window, PyBool(FALSE)))
        trace_ax == Bool(Get(arguments.trace_ax, PyBool(defs.trace_ax)))
        cmd == <<KMSG_BIN, "read", chat, "--json", "--limit", ToString(limit)>>
               \o FlagArgs(deep_recovery, keep_window, trace_ax)
        timeout_ms == IF deep_recovery THEN READ_DEEP_TIMEOUT ELSE READ_TIMEOUT
    IN  IF chat = ""
        THEN Envelope(_error_payload("INVALID_ARGUMENT", "chat is required",
                 "Provide a non-empty chat name.", <<>>, <<>>, 0))
        ELSE IF IntRaises(raw_limit)
        THEN Envelope(_error_payload("INVALID_ARGUMENT", "limit must be an integer",
                 "Use integer range 1..100 for limit.", <<>>, <<>>, 0))
        ELSE Run(Ctx("read", cmd, timeout_ms, chat, deep_recovery, trace_ax, NoResult))

\* _call_kmsg_read, lines 451-477: the envelope of a run that succeeded
ReadSuccess(c, first) ==
    IF ~JsonDecodes(first.stdout)
    THEN Envelope(_error_payload("INVALID_JSON_OUTPUT",
             "kmsg returned non-JSON output for read --json",
             "Run kmsg read manually and confirm JSON-only stdout.",
             first.stdout, first.stderr, first.latency_ms))
    ELSE LET payload == JsonLoads(first.stdout)
         IN  IF payload.kind # "object"
             THEN RaiseOther("'list' object has no attribute 'get'")
             ELSE Envelope([ok |-> TRUE,
                            chat |-> Get(payload.chat, PyStr(c.chat)),
                            fetched_at |-> Get(payload.fetched_at, PyNone),
                            count |-> Get(payload.count, PyInt(0)),
                            messages |-> Get(payload.messages, PyList(0)),
                            meta |-> TraceMeta([latency_ms |-> first.latency_ms],
                                               c.trace_ax, first.stderr)])

RetryOnAnyFailure(c, code) == TRUE
\* line 425: the condition of the deep-recovery retry
ShouldRetry(c, code) == code = "CHAT_NOT_FOUND" /\ ~c.deep_recovery

\* _call_kmsg_read, lines 411-449: after the first run
ReadAfterFirst(c, first) ==
    IF first.timed_out
    THEN Envelope(_error_payload("PROCESS_TIMEOUT", "kmsg read timed out",
             "Increase stability (keep KakaoTalk open/focused) and retry.",
             first.stdout, first.stderr, first.latency_ms))
    ELSE IF first.returncode # 0
    THEN LET code == _extract_error_code(Combined(first))
         IN  IF ShouldRetry(c, code)
             THEN Run(Ctx("retry", c.cmd \o <<"--deep-recovery">>, READ_DEEP_TIMEOUT,
                          c.chat, c.deep_recovery, c.trace_ax, first))
             ELSE Envelope(_error_payload(code, "kmsg read failed", _map_hint(code),
                      first.stdout, first.stderr, first.latency_ms))
    ELSE ReadSuccess(c, first)

\* _call_kmsg_read, lines 427-440: after the retry run
ReadAfterRetry(c, retry) ==
    IF retry.returncode = 0 /\ ~retry.timed_out
    THEN ReadSuccess(c, retry)
    ELSE LET retry_code == _extract_error_code(Combined(retry))
         IN  Envelope(_error_payload(retry_code,
                 "kmsg read failed after deep-recovery retry", _map_hint(retry_code),
                 retry.stdout, retry.stderr, retry.latency_ms))

ConfirmIgnored(arguments) == FALSE
\* lines 482 and 559: confirm = bool(arguments.get("confirm", False))
Confirm(arguments) == Bool(Get(arguments.confirm, PyBool(FALSE)))

ConfirmationAsInvalidArgument(tool) ==
    _error_payload("INVALID_ARGUMENT",
        <<tool, " blocked because confirm=true requests pre-send confirmation">>,
        "Ask user for explicit approval, then call again with confirm=false (or omit confirm).",
        <<>>, <<>>, 0)
\* lines 495-502 and 572-579: the envelope of a call blocked by confirm
ConfirmationRequired(tool) ==
    _error_payload("CONFIRMATION_REQUIRED",
        <<tool, " blocked because confirm=true requests pre-send confirmation">>,
        "Ask user for explicit approval, then call again with confirm=false (or omit confirm).",
        <<>>, <<>>, 0)

\* _call_kmsg_send, lines 479-517: up to the run
_call_kmsg_send(arguments, defs) ==
    LET chat == Strip(Str(Get(arguments.chat, PyStr(""))))
        message == Strip(Str(Get(arguments.message, PyStr(""))))
        confirm == Confirm(arguments)
        deep_recovery == Bool(Get(arguments.deep_recovery, PyBool(defs.deep_recovery)))
        keep_window == Bool(Get(arguments.keep_window, PyBool(FALSE)))
        trace_ax == Bool(Get(arguments.trace_ax, PyBool(defs.trace_ax)))
        cmd == <<KMSG_BIN, "send", chat, message>>
               \o FlagArgs(deep_recovery, keep_window, trace_ax)
        timeout_ms == IF deep_recovery THEN SEND_DEEP_TIMEOUT ELSE SEND_TIMEOUT
    IN  IF chat = "" \/ message = ""
        THEN Envelope(_error_payload("INVALID_ARGUMENT", "chat and message are required",
                 "Provide both chat and message.", <<>>, <<>>, 0))
        ELSE IF confirm
        THEN Envelope(ConfirmationRequired("kmsg_send"))
        ELSE Run(Ctx("send", cmd, timeout_ms, chat, deep_recovery, trace_ax, NoResult))

\* _call_kmsg_send_image, lines 556-604: up to the run
_call_kmsg_send_image(arguments, defs) ==
    LET chat == Strip(Str(Get(arguments.chat, PyStr(""))))
        image_path == Strip(Str(Get(arguments.image_path, PyStr(""))))
        confirm == Confirm(arguments)
        deep_recovery == Bool(Get(arguments.deep_recovery, PyBool(defs.deep_recovery)))
        keep_window == Bool(Get(arguments.keep_window, PyBool(FALSE)))
        trace_ax == Bool(Get(arguments.trace_ax, PyBool(defs.trace_ax)))
        cmd == <<KMSG_BIN, "send-image", chat, image_path>>
               \o FlagArgs(deep_recovery, keep_window, trace_ax)
        timeout_ms == IF deep_recovery THEN IMAGE_DEEP_TIMEOUT ELSE IMAGE_TIMEOUT
    IN  IF chat = "" \/ image_path = ""
        THEN Envelope(_error_payload("INVALID_ARGUMENT", "chat and image_path are required",
                 "Provide both chat and image_path.", <<>>, <<>>, 0))
        ELSE IF confirm
        THEN Envelope(ConfirmationRequired("kmsg_send_image"))
        ELSE IF ~isfile(image_path)
        THEN Envelope(_error_payload("INVALID_ARGUMENT",
                 "image_path must point to an existing file",
                 "Provide a valid local image file path.", <<>>, <<>>, 0))
        ELSE Run(Ctx("send_image", cmd, timeout_ms, chat, deep_recovery, trace_ax, NoResult))

SendAfterRunRetrying(c, run, what) ==
    IF run.returncode # 0 /\ ~run.timed_out
    THEN Run(Ctx(c.stage, c.cmd \o <<"--deep-recovery">>, c.timeout_ms, c.chat,
                 TRUE, c.trace_ax, run))
    ELSE Envelope([ok |-> TRUE, chat |-> c.chat, sent |-> TRUE,
                   meta |-> [latency_ms |-> run.latency_ms, stdout |-> run.stdout]])
\* _call_kmsg_send lines 519-554 and _call_kmsg_send_image lines 606-641: after the run
SendAfterRun(c, run, what) ==
    IF run.timed_out
    THEN Envelope(_error_payload("PROCESS_TIMEOUT", <<"kmsg ", what, " timed out">>,
             "Retry after ensuring KakaoTalk is responsive.",
             run.stdout, run.stderr, run.latency_ms))
    ELSE IF run.returncode # 0
    THEN LET code == _extract_error_code(Combined(run))
         IN  Envelope(_error_payload(code, <<"kmsg ", what, " failed">>, _map_hint(code),
                 run.stdout, run.stderr, run.latency_ms))
    ELSE Envelope([ok |-> TRUE, chat |-> c.chat, sent |-> TRUE,
                   meta |-> TraceMeta([latency_ms |-> run.latency_ms, stdout |-> run.stdout],
                                      c.trace_ax, run.stderr)])

-----------------------------------------------------------------------------
(* KmsgRunner.check_ready and the initialize result *)

PROTOCOL_VERSION == "2024-11-05"

InitializeResult(detail) ==
    [protocolVersion |-> PROTOCOL_VERSION,
     capabilities |-> [tools |-> <<>>],
     serverInfo |-> [name |-> "openclaw-kmsg-mcp", version |-> "0.0.0"],
     instructions |-> "Use kmsg_read for read-only operations. ...",
     meta |-> [startup_check |-> detail]]

\* the detail of a failed probe, with the note of line 672
FailedDetail(stage, message, r) ==
    [stage |-> stage, message |-> message, stdout |-> r.stdout,
     stderr |-> r.stderr, kmsg_bin |-> KMSG_BIN,
     note |-> "MCP server started, but kmsg readiness check failed"]

\* check_ready, lines 100-108, entered from initialize
check_ready == Run(Ctx("version", <<KMSG_BIN, "--version">>, VERSION_TIMEOUT, "", FALSE, FALSE, NoResult))

\* check_ready, lines 101-110: after the version run
CheckReadyAfterVersion(c, version) ==
    IF version.returncode # 0
    THEN Result(InitializeResult(FailedDetail("version", "kmsg binary not executable", version)))
    ELSE Run(Ctx("status", <<KMSG_BIN, "status">>, STATUS_TIMEOUT, "", FALSE, FALSE, version))

\* check_ready, lines 111-123: after the status run
CheckReadyAfterStatus(c, status) ==
    IF status.returncode # 0
    THEN Result(InitializeResult(FailedDetail("status", "kmsg status check failed", status)))
    ELSE Result(InitializeResult([kmsg_bin |-> KMSG_BIN, version |-> c.first.stdout]))

-----------------------------------------------------------------------------
(* RPC Dispatcher *)

\* _tool_definitions: the catalog, by name and required fields
_tool_definitions ==
    <<[name |-> "kmsg_read", required |-> <<"chat">>],
      [name |-> "kmsg_send", required |-> <<"chat", "message">>],
      [name |-> "kmsg_send_image", required |-> <<"chat", "image_path">>]>>

ToolNames == {"kmsg_read", "kmsg_send", "kmsg_send_image"}

\* isError is never set
ToolsCallResultNeverError(o) ==
    IF o.kind = "envelope"
    THEN Result([content |-> _make_text_content(JsonDumps(o.env)),
                 isError |-> FALSE,
                 structuredContent |-> o.env])
    ELSE o

\* lines 658-662: the tools/call result around an envelope
ToolsCallResult(o) ==
    IF o.kind = "envelope"
    THEN Result([content |-> _make_text_content(JsonDumps(o.env)),
                 isError |-> ~o.env.ok,
                 structuredContent |-> o.env])
    ELSE o

EmptyArguments ==
    [chat |-> Absent, message |-> Absent, image_path |-> Absent, limit |-> Absent,
     confirm |-> Absent, deep_recovery |-> Absent, keep_window |-> Absent,
     trace_ax |-> Absent]

\* request.get("params", {}) with no params key
NoParams == [kind |-> "absent", name |-> Absent, arguments_kind |-> "absent",
             arguments |-> EmptyArguments]
\* params that is a JSON array
ListParams == [kind |-> "list", name |-> Absent, arguments_kind |-> "absent",
               arguments |-> EmptyArguments]

\* the name of the tool handler _handle_tools_call enters, "none" when it enters none
ToolEntered(params) ==
    IF params.kind # "list" /\ params.arguments_kind # "list"
       /\ params.name.kind = "str" /\ params.name.s \in ToolNames
    THEN params.name.s
    ELSE "none"

\* _handle_tools_call, lines 643-656
_handle_tools_call(params, defs) ==
    IF params.kind = "list"
    THEN RaiseOther("'list' object has no attribute 'get'")
    ELSE IF params.arguments_kind = "list"
    THEN RaiseMCP(INVALID_PARAMS, <<"tool arguments must be an object">>)
    ELSE IF ToolEntered(params) = "kmsg_read"
    THEN ToolsCallResult(_call_kmsg_read(params.arguments, defs))
    ELSE IF ToolEntered(params) = "kmsg_send"
    THEN ToolsCallResult(_call_kmsg_send(params.arguments, defs))
    ELSE IF ToolEntered(params) = "kmsg_send_image"
    THEN ToolsCallResult(_call_kmsg_send_image(params.arguments, defs))
    ELSE RaiseMCP(METHOD_NOT_FOUND, <<"Unknown tool: ", Str(Get(params.name, PyNone))>>)

HandleRequestNoInitCheck(req, init, defs) ==
    CASE req.method = "initialize" -> check_ready
      [] req.method = "notifications/initialized" -> ReturnNone
      [] req.method = "ping" -> Result(<<>>)
      [] req.method = "tools/list" -> Result([tools |-> _tool_definitions])
      [] req.method = "tools/call" -> _handle_tools_call(req.params, defs)
      [] req.method = "shutdown" -> Result(<<>>)
      [] req.method = "exit" -> ReturnNone
      [] OTHER -> RaiseMCP(METHOD_NOT_FOUND, <<"Method not found: ", req.method>>)

\* the last branch does not name the method
HandleRequestUnnamedMethod(req, init, defs) ==
    CASE req.method = "initialize" -> check_ready
      [] req.method = "notifications/initialized" -> ReturnNone
      [] req.method = "ping" -> Result(<<>>)
      [] ~init -> RaiseMCP(NOT_INITIALIZED, <<"Server not initialized">>)
      [] req.method = "tools/list" -> Result([tools |-> _tool_definitions])
      [] req.method = "tools/call" -> _handle_tools_call(req.params, defs)
      [] req.method = "shutdown" -> Result(<<>>)
      [] req.method = "exit" -> ReturnNone
      [] OTHER -> RaiseMCP(METHOD_NOT_FOUND, <<"Method not found">>)

\* _handle_request, lines 664-720: what the handler does, given self.initialized
_handle_request(req, init, defs) ==
    CASE req.method = "initialize" -> check_ready
      [] req.method = "notifications/initialized" -> ReturnNone
      [] req.method = "ping" -> Result(<<>>)
      [] ~init -> RaiseMCP(NOT_INITIALIZED, <<"Server not initialized">>)
      [] req.method = "tools/list" -> Result([tools |-> _tool_definitions])
      [] req.method = "tools/call" -> _handle_tools_call(req.params, defs)
      [] req.method = "shutdown" -> Result(<<>>)
      [] req.method = "exit" -> ReturnNone
      [] OTHER -> RaiseMCP(METHOD_NOT_FOUND, <<"Method not found: ", req.method>>)

ShutdownBeforeInitCheck(req, init, shut) ==
    shut \/ req.method \in {"shutdown", "exit"}
\* shutdown clears the flag
InitializedClearedByShutdown(req, init) ==
    (init \/ req.method = "initialize") /\ req.method # "shutdown"

\* initialize leaves the flag alone
InitializedUnchanged(req, init) == init

\* line 669: self.initialized after the handler
InitializedAfter(req, init) == init \/ req.method = "initialize"

\* only exit sets the flag
ShutdownOnlyOnExit(req, init, shut) == shut \/ (init /\ req.method = "exit")

\* lines 712-718: self.shutdown after the handler
ShutdownAfter(req, init, shut) ==
    shut \/ (init /\ req.method \in {"shutdown", "exit"})

\* the tool handler entered while handling req
HandlerEntered(req, init) ==
    IF init /\ req.method = "tools/call" THEN ToolEntered(req.params) ELSE "none"

\* the continuation of the handler blocked in KmsgRunner.run, given the result
AfterRun(c, res) ==
    CASE c.stage = "version" -> CheckReadyAfterVersion(c, res)
      [] c.stage = "status" -> CheckReadyAfterStatus(c, res)
      [] c.stage = "read" -> ToolsCallResult(ReadAfterFirst(c, res))
      [] c.stage = "retry" -> ToolsCallResult(ReadAfterRetry(c, res))
      [] c.stage = "send" -> ToolsCallResult(SendAfterRun(c, res, "send"))
      [] c.stage = "send_image" -> ToolsCallResult(SendAfterRun(c, res, "send-image"))

\* errors are written for messages without an id too
ResponsesForAnsweringAll(req_id, o) ==
    CASE o.kind = "result" -> <<_json_rpc_result(req_id, o.body)>>
      [] o.kind = "raise" -> <<_json_rpc_error(req_id, o.code, o.message, <<>>)>>
      [] o.kind = "exception" ->
           <<_json_rpc_error(req_id, INTERNAL_ERROR, <<"Internal server error">>,
                             [detail |-> o.detail])>>
      [] OTHER -> <<>>

\* a handler that returns None is answered with an empty result
ResponsesForAnsweringNone(req_id, o) ==
    CASE o.kind = "result" -> <<_json_rpc_result(req_id, o.body)>>
      [] o.kind = "raise" ->
           IF req_id = NullId THEN <<>>
           ELSE <<_json_rpc_error(req_id, o.code, o.message, <<>>)>>
      [] o.kind = "exception" ->
           IF req_id = NullId THEN <<>>
           ELSE <<_json_rpc_error(req_id, INTERNAL_ERROR, <<"Internal server error">>,
                                  [detail |-> o.detail])>>
      [] OTHER -> <<_json_rpc_result(req_id, <<>>)>>

\* serve_forever, lines 731-749: what is written for an outcome of _handle_request
ResponsesFor(req_id, o) ==
    CASE o.kind = "result" -> <<_json_rpc_result(req_id, o.body)>>
      [] o.kind = "raise" ->
           IF req_id = NullId THEN <<>>
           ELSE <<_json_rpc_error(req_id, o.code, o.message, <<>>)>>
      [] o.kind = "exception" ->
           IF req_id = NullId THEN <<>>
           ELSE <<_json_rpc_error(req_id, INTERNAL_ERROR, <<"Internal server error">>,
                                  [detail |-> o.detail])>>
      [] OTHER -> <<>>

NoError == [code |-> 0, message |-> <<>>]

\* the protocol error raised for an outcome (code 0: none)
ErrorOf(o) ==
    CASE o.kind = "raise" -> [code |-> o.code, message |-> o.message]
      [] o.kind = "exception" -> [code |-> INTERNAL_ERROR, message |-> <<"Internal server error">>]
      [] OTHER -> NoError

-----------------------------------------------------------------------------
(* Framing: _read_message and _write_message.  A stream is a sequence of bytes;
   an ASCII byte is written as its character, the three bytes of the one
   non-ASCII character of the model as xEA xB0 x80. *)

CR == "\r"
LF == "\n"
HANGUL == "U+AC00"
REPLACEMENT == "U+FFFD"
HangulBytes == <<"xEA", "xB0", "x80">>

Take(s, n) == SubSeq(s, 1, Min(n, Len(s)))
Drop(s, n) == SubSeq(s, Min(n, Len(s)) + 1, Len(s))

\* str.encode("utf-8"), line 219
RECURSIVE Encode(_)
Encode(text) ==
    IF text = <<>> THEN <<>>
    ELSE (IF Head(text) = HANGUL THEN HangulBytes ELSE <<Head(text)>>) \o Encode(Tail(text))

\* FALSE where bytes.decode("utf-8") raises UnicodeDecodeError
RECURSIVE Decodable(_)
Decodable(bytes) ==
    IF bytes = <<>> THEN TRUE
    ELSE IF Take(bytes, 3) = HangulBytes THEN Decodable(Drop(bytes, 3))
    ELSE IF Head(bytes) \in {"xEA", "xB0", "x80"} THEN FALSE
    ELSE Decodable(Tail(bytes))

\* bytes.decode("utf-8", errors="replace"), line 197
RECURSIVE DecodeReplace(_)
DecodeReplace(bytes) ==
    IF bytes = <<>> THEN <<>>
    ELSE IF Take(bytes, 3) = HangulBytes
         THEN <<HANGUL>> \o DecodeReplace(Drop(bytes, 3))
         ELSE IF Head(bytes) \in {"xEA", "xB0", "x80"}
              THEN <<REPLACEMENT>> \o DecodeReplace(Tail(bytes))
              ELSE <<Head(bytes)>> \o DecodeReplace(Tail(bytes))

\* bytes.decode("utf-8"), line 214
Decode(bytes) == [ok |-> Decodable(bytes), text |-> DecodeReplace(bytes)]

Whitespace == {" ", "\t", CR, LF}

RECURSIVE LStrip(_)
LStrip(s) == IF s # <<>> /\ Head(s) \in Whitespace THEN LStrip(Tail(s)) ELSE s

RECURSIVE RStrip(_)
RStrip(s) ==
    IF s # <<>> /\ s[Len(s)] \in Whitespace THEN RStrip(SubSeq(s, 1, Len(s) - 1)) ELSE s

\* str.strip() on a sequence of characters
StripChars(s) == RStrip(LStrip(s))

\* str.lower(), for the letters that occur in the header names of the model
LowerChar(c) ==
    CASE c = "C" -> "c"
      [] c = "L" -> "l"
      [] c = "X" -> "x"
      [] OTHER -> c

LowerChars(s) == [i \in 1..Len(s) |-> LowerChar(s[i])]

\* the index of the first occurrence of c in s, 0 when there is none
IndexOf(s, c) ==
    IF \E i \in 1..Len(s) : s[i] = c
    THEN CHOOSE i \in 1..Len(s) : s[i] = c /\ \A j \in 1..(i - 1) : s[j] # c
    ELSE 0

DigitChars == <<"0", "1", "2", "3", "4", "5", "6", "7", "8", "9">>

\* str(n) of a natural number
RECURSIVE Digits(_)
Digits(n) ==
    IF n < 10 THEN <<DigitChars[n + 1]>> ELSE Digits(n \div 10) \o <<DigitChars[(n % 10) + 1]>>

IntText(n) == IF n < 0 THEN <<"-">> \o Digits(0 - n) ELSE Digits(n)

IsDigits(s) == s # <<>> /\ \A i \in 1..Len(s) : \E d \in 1..10 : DigitChars[d] = s[i]

RECURSIVE DigitsValue(_)
DigitsValue(s) ==
    IF s = <<>> THEN 0
    ELSE 10 * DigitsValue(SubSeq(s, 1, Len(s) - 1))
         + ((CHOOSE d \in 1..10 : DigitChars[d] = s[Len(s)]) - 1)

\* int(text), line 205: FALSE where it raises ValueError
IntTextParses(s) ==
    LET t == StripChars(s) IN
    IF t # <<>> /\ Head(t) \in {"-", "+"} THEN IsDigits(Tail(t)) ELSE IsDigits(t)

IntTextValue(s) ==
    LET t == StripChars(s) IN
    IF Head(t) = "-" THEN 0 - DigitsValue(Tail(t))
    ELSE IF Head(t) = "+" THEN DigitsValue(Tail(t))
    ELSE DigitsValue(t)

(* JSON values: one record shape for null, booleans, integers, strings, lists and
   objects; an object's items are its members, in order. *)
JNull == [t |-> "null", n |-> 0, chars |-> <<>>, items |-> <<>>]
JTrue == [t |-> "true", n |-> 0, chars |-> <<>>, items |-> <<>>]
JFalse == [t |-> "false", n |-> 0, chars |-> <<>>, items |-> <<>>]
JInt(n) == [t |-> "int", n |-> n, chars |-> <<>>, items |-> <<>>]
JStr(chars) == [t |-> "str", n |-> 0, chars |-> chars, items |-> <<>>]
JList(items) == [t |-> "list", n |-> 0, chars |-> <<>>, items |-> items]
JMember(key, value) == [t |-> "member", n |-> 0, chars |-> key, items |-> <<value>>]
JObj(members) == [t |-> "obj", n |-> 0, chars |-> <<>>, items |-> members]

\* json.dumps of one character of a string, ensure_ascii=False
Escaped(ch) ==
    CASE ch = "\"" -> <<"\\", "\"">>
      [] ch = "\\" -> <<"\\", "\\">>
      [] ch = LF -> <<"\\", "n">>
      [] OTHER -> <<ch>>

RECURSIVE EscapedChars(_)
EscapedChars(s) == IF s = <<>> THEN <<>> ELSE Escaped(Head(s)) \o EscapedChars(Tail(s))

StringText(s) == <<"\"">> \o EscapedChars(s) \o <<"\"">>

\* the JSON text of a value; spaced: with the separators ", " and ": " of
\* json.dumps (line 219), otherwise with "," and ":"
RECURSIVE JsonText(_, _)
RECURSIVE JoinItems(_, _)
JoinItems(items, spaced) ==
    IF items = <<>> THEN <<>>
    ELSE IF Len(items) = 1 THEN JsonText(items[1], spaced)
    ELSE JsonText(items[1], spaced) \o (IF spaced THEN <<",", " ">> ELSE <<",">>)
         \o JoinItems(Tail(items), spaced)

JsonText(v, spaced) ==
    CASE v.t = "null" -> <<"n", "u", "l", "l">>
      [] v.t = "true" -> <<"t", "r", "u", "e">>
      [] v.t = "false" -> <<"f", "a", "l", "s", "e">>
      [] v.t = "int" -> IntText(v.n)
      [] v.t = "str" -> StringText(v.chars)
      [] v.t = "list" -> <<"[">> \o JoinItems(v.items, spaced) \o <<"]">>
      [] v.t = "member" ->
            StringText(v.chars) \o (IF spaced THEN <<":", " ">> ELSE <<":">>)
            \o JsonText(v.items[1], spaced)
      [] v.t = "obj" -> <<"{">> \o JoinItems(v.items, spaced) \o <<"}">>

METHOD == <<"m", "e", "t", "h", "o", "d">>

\* payloads the server writes: responses with string keys
Payloads ==
    {JObj(<<JMember(<<"i", "d">>, JInt(1)), JMember(<<"r", "e", "s", "u", "l", "t">>, JObj(<<>>))>>),
     JObj(<<JMember(<<"i", "d">>, JInt(12)),
            JMember(<<"e", "r", "r", "o", "r">>, JObj(<<JMember(<<"c", "o", "d", "e">>, JInt(-32601)),
                                       JMember(<<"m", "e", "s", "s", "a", "g", "e">>, JStr(<<"n", "o", ":", " ", "a", "/", "b">>))>>))>>),
     JObj(<<JMember(<<"i", "d">>, JNull),
            JMember(<<"t", "e", "x", "t">>, JStr(<<HANGUL, "\"", HANGUL, "\\", LF>>))>>),
     JObj(<<JMember(<<"o", "k">>, JTrue), JMember(<<"l", "i", "s", "t">>, JList(<<JInt(0), JFalse, JStr(<<>>)>>))>>)}

\* JSON documents that are no object
NonObjects ==
    {JNull, JTrue, JInt(5), JStr(METHOD), JStr(<<"h", "i">>), JList(<<>>), JList(<<JStr(METHOD)>>)}

\* the JSON values of the model
JsonValues == Payloads \cup NonObjects

\* json.loads, lines 213-216: JsonParses is FALSE where it raises JSONDecodeError
JsonParses(text) == \E v \in JsonValues : text \in {JsonText(v, TRUE), JsonText(v, FALSE)}

JsonParse(text) == CHOOSE v \in JsonValues : text \in {JsonText(v, TRUE), JsonText(v, FALSE)}

CONTENT_LENGTH == <<"c", "o", "n", "t", "e", "n", "t", "-", "l", "e", "n", "g", "t", "h">>

\* the frame _write_message writes to stdout, with the byte count of line 220
CharLengthHeader(encoded, text) == <<"C", "o", "n", "t", "e", "n", "t", "-", "L", "e", "n", "g", "t", "h", ":", " ">> \o IntText(Len(text)) \o <<CR, LF, CR, LF>>

FrameHeader(encoded, text) == <<"C", "o", "n", "t", "e", "n", "t", "-", "L", "e", "n", "g", "t", "h", ":", " ">> \o IntText(Len(encoded)) \o <<CR, LF, CR, LF>>

_write_message(payload) ==
    LET text == JsonText(payload, TRUE)
        encoded == Encode(text)
    IN FrameHeader(encoded, text) \o encoded

\* readline(): the index of the last byte of the first line of the stream
LineEnd(stream) == IF IndexOf(stream, LF) = 0 THEN Len(stream) ELSE IndexOf(stream, LF)

NoHeaders == [present |-> FALSE, content_length |-> <<>>]

\* the header loop, lines 190-203: the stream after the blank line, and the
\* content-length header (the last one wins); eof where readline returns b""
RECURSIVE ReadHeaders(_, _)
ReadHeaders(stream, headers) ==
    LET line == Take(stream, LineEnd(stream))
        rest == Drop(stream, LineEnd(stream))
        decoded == StripChars(DecodeReplace(line))
        sep == IndexOf(decoded, ":")
        key == LowerChars(StripChars(Take(decoded, sep - 1)))
        value == StripChars(Drop(decoded, sep))
    IN IF line = <<>> THEN [eof |-> TRUE, headers |-> headers, rest |-> rest]
       ELSE IF line \in {<<CR, LF>>, <<LF>>} THEN [eof |-> FALSE, headers |-> headers, rest |-> rest]
       ELSE IF decoded = <<>> \/ sep = 0 THEN ReadHeaders(rest, headers)
       ELSE IF key = CONTENT_LENGTH
            THEN ReadHeaders(rest, [present |-> TRUE, content_length |-> value])
            ELSE ReadHeaders(rest, headers)

Returned(value, rest) == [raises |-> "", value |-> value, rest |-> rest]
Raised(exc, rest) == [raises |-> exc, value |-> JNull, rest |-> rest]

\* _read_message on the unread bytes of stdin: the value returned (JNull is
\* Python's None) or the exception raised, and the bytes left unread
_read_message(stream) ==
    LET h == ReadHeaders(stream, NoHeaders)
        length_text == IF h.headers.present THEN h.headers.content_length ELSE <<"0">>
        content_length == IntTextValue(length_text)
        body == Take(h.rest, content_length)
        rest == Drop(h.rest, content_length)
        decoded == Decode(body)
    IN IF h.eof THEN Returned(JNull, h.rest)
       ELSE IF ~IntTextParses(length_text) THEN Raised("ValueError", h.rest)
       ELSE IF content_length <= 0 THEN Returned(JNull, h.rest)
       ELSE IF body = <<>> THEN Returned(JNull, rest)
       ELSE IF ~decoded.ok THEN Raised("UnicodeDecodeError", rest)
       ELSE IF ~JsonParses(decoded.text) THEN Returned(JNull, rest)
       ELSE Returned(JsonParse(decoded.text), rest)

-----------------------------------------------------------------------------
(* Inputs: the messages the peer may send and what a process may do *)

NoMethod == "<no method key>"
Methods == {"initialize", "notifications/initialized", "ping", "tools/list",
            "tools/call", "shutdown", "exit", "bogus/method"}

Flag2 == {Absent, PyBool(TRUE)}
Flag3 == {Absent, PyBool(TRUE), PyBool(FALSE)}
ChatValues == {Absent, PyNone, PyStr("  "), PyStr("Alice"), PyInt(123)}
MessageValues == {Absent, PyNone, PyStr(""), PyStr("hello")}
PathValues == {Absent, PyNone, PyStr("/img.png"), PyStr("/missing.png")}
LimitValues == {Absent, PyNone, PyStr("abc"), PyStr("7"), PyFloat2(11),
                PyInt(0), PyInt(1), PyInt(5), PyInt(100), PyInt(101), PyInt(500)}

\* every chat value with every confirm and deep_recovery; every flag set and every
\* limit for a valid chat
ReadArguments ==
    {[EmptyArguments EXCEPT !.chat = c, !.confirm = f, !.deep_recovery = d] :
        c \in ChatValues, f \in Flag2, d \in Flag3}
    \cup
    {[EmptyArguments EXCEPT !.chat = PyStr("Alice"), !.deep_recovery = d,
                            !.keep_window = k, !.trace_ax = t] :
        d \in Flag3, k \in Flag2, t \in Flag2}
    \cup
    {[EmptyArguments EXCEPT !.chat = PyStr("Alice"), !.limit = l, !.deep_recovery = d] :
        l \in LimitValues, d \in Flag3}

SendArguments ==
    {[EmptyArguments EXCEPT !.chat = c, !.message = m, !.confirm = f] :
        c \in ChatValues, m \in MessageValues, f \in Flag3}
    \cup
    {[EmptyArguments EXCEPT !.chat = PyStr("Alice"), !.message = PyStr("hello"),
                            !.confirm = f, !.deep_recovery = d, !.keep_window = k,
                            !.trace_ax = t] :
        f \in Flag3, d \in Flag3, k \in Flag2, t \in Flag2}

SendImageArguments ==
    {[EmptyArguments EXCEPT !.chat = c, !.image_path = p, !.confirm = f] :
        c \in ChatValues, p \in PathValues, f \in Flag3}
    \cup
    {[EmptyArguments EXCEPT !.chat = PyStr("Alice"), !.image_path = p,
                            !.confirm = f, !.deep_recovery = d, !.keep_window = k,
                            !.trace_ax = t] :
        p \in {PyStr("/img.png"), PyStr("/missing.png")},
        f \in Flag3, d \in Flag3, k \in Flag2, t \in Flag2}

ToolParams(name, arguments) ==
    [kind |-> "object", name |-> PyStr(name), arguments_kind |-> "object",
     arguments |-> arguments]

ParamsValues ==
    {NoParams, ListParams,
     [NoParams EXCEPT !.kind = "object", !.name = PyStr("kmsg_send")],
     [NoParams EXCEPT !.kind = "object", !.name = PyStr("kmsg_read"), !.arguments_kind = "list"],
     [NoParams EXCEPT !.kind = "object", !.name = PyStr("bogus_tool"), !.arguments_kind = "object"]}
    \cup {ToolParams("kmsg_read", a) : a \in ReadArguments}
    \cup {ToolParams("kmsg_send", a) : a \in SendArguments}
    \cup {ToolParams("kmsg_send_image", a) : a \in SendImageArguments}

Messages ==
    {[method |-> m, id |-> i, params |-> NoParams] :
        m \in (Methods \ {"tools/call"}) \cup {NoMethod}, i \in Ids}
    \cup {[method |-> "tools/call", id |-> i, params |-> p] : i \in Ids, p \in ParamsValues}

NoRequest == [method |-> NoMethod, id |-> NullId, params |-> NoParams]

Stdouts == {<<>>, <<JSON_OBJECT_TEXT>>, <<JSON_ARRAY_TEXT>>}
Stderrs == {<<>>, <<"SEARCH_MISS">>, <<"Not Found", "SEARCH_MISS">>,
            <<"WINDOW_NOT_READY">>, <<"Accessibility">>,
            <<"SEARCH_MISS", "WINDOW_NOT_READY">>, <<"Accessibility", "search_miss">>}
ExitCodes == {0, 1, EXIT_TIMEOUT}
StartErrors == {<<"[Errno 2] ", "No such file or directory", ": 'kmsg'">>}
Latencies == 0..MaxLatency

\* a frame with the given Content-Length text and body bytes
Framed(length_text, body) == <<"C", "o", "n", "t", "e", "n", "t", "-", "L", "e", "n", "g", "t", "h", ":", " ">> \o length_text \o <<CR, LF, CR, LF>> \o body

\* a well-formed frame of a JSON document, as a peer writes it
FrameOf(v) ==
    LET encoded == Encode(JsonText(v, FALSE))
    IN <<"c", "o", "n", "t", "e", "n", "t", "-", "l", "e", "n", "g", "t", "h", ":">> \o IntText(Len(encoded)) \o <<CR, LF>>
       \o <<"X", "-", "T", "y", "p", "e", ":", " ", "j", "s", "o", "n">> \o <<CR, LF, CR, LF>> \o encoded

\* stdin at end-of-file
AtEof == <<>>

\* what stdin may hold besides the framed objects of Messages: the end of the
\* stream, frames without a usable length or body, and documents that are no object
RawFrames ==
    {AtEof,
     <<CR, LF>>,
     <<"X", "-", "T", "y", "p", "e", ":", " ", "j", "s", "o", "n">> \o <<LF, LF>>,
     Framed(<<"0">>, <<>>),
     Framed(<<"-", "1">>, <<"{", "}">>),
     Framed(<<"2">>, <<>>),
     Framed(<<"1">>, <<"{">>),
     Framed(<<"2">>, <<"{", "]">>),
     Framed(<<"x">>, <<"{", "}">>),
     Framed(<<"1">>, <<"xB0">>)}
    \cup {FrameOf(v) : v \in NonObjects}

\* what the last call of _read_message read
NothingRead == [what |-> "nothing", frame |-> <<>>]
ObjectRead == [what |-> "object", frame |-> <<>>]
FrameRead(f) == [what |-> "frame", frame |-> f]

-----------------------------------------------------------------------------
(* The serve loop *)

Init ==
    /\ initialized = FALSE
    /\ shutdown = FALSE
    /\ defaults \in [deep_recovery : BOOLEAN, trace_ax : BOOLEAN]
    /\ pc = "loop"
    /\ request = NoRequest
    /\ entered = "none"
    /\ ctx = NoCtx
    /\ proc = "none"
    /\ runs = <<>>
    /\ raised = NoError
    /\ written = <<>>
    /\ lastRead = NothingRead
    /\ uncaught = ""
    /\ pipe = <<>>
    /\ sent = <<>>
    /\ received = <<>>

\* the handler goes on with outcome o: it blocks in the next run, or returns to the
\* loop, which writes the response (lines 734-749) and ends the iteration
Complete(req, o) ==
    IF o.kind = "run"
    THEN /\ pc' = "popen"
         /\ ctx' = o.ctx
         /\ raised' = NoError
         /\ written' = <<>>
    ELSE /\ pc' = "handled"
         /\ ctx' = NoCtx
         /\ raised' = ErrorOf(o)
         /\ written' = ResponsesFor(req.id, o)

\* lines 723-733: a message with a method is read and dispatched
ReadMessage ==
    /\ pc = "loop"
    /\ ~shutdown
    /\ \E msg \in Messages :
        /\ msg.method # NoMethod
        /\ request' = msg
        /\ initialized' = InitializedAfter(msg, initialized)
        /\ shutdown' = ShutdownAfter(msg, initialized, shutdown)
        /\ entered' = HandlerEntered(msg, initialized)
        /\ Complete(msg, _handle_request(msg, initialized, defaults))
    /\ lastRead' = ObjectRead
    /\ UNCHANGED <<defaults, proc, runs, uncaught, framing>>

\* the iteration is over: the loop goes back to its condition (line 723) and the
\* locals of the iteration are gone
NextIteration ==
    /\ pc = "handled"
    /\ pc' = "loop"
    /\ request' = NoRequest
    /\ entered' = "none"
    /\ ctx' = NoCtx
    /\ proc' = "none"
    /\ runs' = <<>>
    /\ raised' = NoError
    /\ written' = <<>>
    /\ lastRead' = NothingRead
    /\ UNCHANGED <<initialized, shutdown, defaults, uncaught, framing>>

\* a message without a method is answered with an error
SkipMessageAnswered ==
    /\ pc = "loop"
    /\ ~shutdown
    /\ \E msg \in Messages :
        /\ msg.method = NoMethod
        /\ request' = msg
        /\ written' = <<_json_rpc_error(msg.id, METHOD_NOT_FOUND, <<"Method not found: ">>, <<>>)>>
    /\ pc' = "handled"
    /\ lastRead' = ObjectRead
    /\ UNCHANGED <<initialized, shutdown, defaults, entered, ctx, proc, runs,
                   raised, uncaught, framing>>

\* lines 728-729: a message without a method is skipped
SkipMessage ==
    /\ pc = "loop"
    /\ ~shutdown
    /\ \E msg \in Messages :
        /\ msg.method = NoMethod
        /\ request' = msg
    /\ pc' = "handled"
    /\ lastRead' = ObjectRead
    /\ UNCHANGED <<initialized, shutdown, defaults, entered, ctx, proc, runs,
                   raised, written, uncaught, framing>>

\* lines 728 and 731 for a decoded document that is no dict: the membership test,
\* then request.get
LoopOutcome(v) ==
    CASE v.t = "list" ->
            IF \E i \in 1..Len(v.items) : v.items[i] = JStr(METHOD)
            THEN "AttributeError" ELSE "continue"
      [] v.t = "str" ->
            IF \E i \in 1..(Len(v.chars) - Len(METHOD) + 1) :
                  SubSeq(v.chars, i, i + Len(METHOD) - 1) = METHOD
            THEN "AttributeError" ELSE "continue"
      [] OTHER -> "TypeError"

\* the loop stops at line 726 without an effect on anything else
Stops(f) ==
    /\ pc' = "done"
    /\ lastRead' = FrameRead(f)
    /\ UNCHANGED <<initialized, shutdown, defaults, request, entered, ctx, proc,
                   runs, raised, written, uncaught, framing>>

\* an exception no handler catches leaves serve_forever
Crashes(f, exc) ==
    /\ pc' = "crashed"
    /\ lastRead' = FrameRead(f)
    /\ uncaught' = exc
    /\ UNCHANGED <<initialized, shutdown, defaults, request, entered, ctx, proc,
                   runs, raised, written, framing>>

\* the loop goes on after the end of the stream
EndOfStreamContinues ==
    /\ pc = "loop"
    /\ ~shutdown
    /\ pc' = "handled"
    /\ lastRead' = FrameRead(AtEof)
    /\ UNCHANGED <<initialized, shutdown, defaults, request, entered, ctx, proc,
                   runs, raised, written, uncaught, framing>>

\* lines 192-193, 724-726: stdin is at end-of-file, _read_message returns None
EndOfStream ==
    /\ pc = "loop"
    /\ ~shutdown
    /\ _read_message(AtEof) = Returned(JNull, <<>>)
    /\ Stops(AtEof)

\* a frame without a message is skipped
ReadNoMessageSkips ==
    /\ pc = "loop"
    /\ ~shutdown
    /\ \E f \in RawFrames \ {AtEof} :
        /\ _read_message(f).raises = ""
        /\ _read_message(f).value = JNull
        /\ lastRead' = FrameRead(f)
    /\ pc' = "handled"
    /\ UNCHANGED <<initialized, shutdown, defaults, request, entered, ctx, proc,
                   runs, raised, written, uncaught, framing>>

\* lines 205-216, 724-726: _read_message returns None for a frame
ReadNoMessage ==
    /\ pc = "loop"
    /\ ~shutdown
    /\ \E f \in RawFrames \ {AtEof} :
        /\ _read_message(f).raises = ""
        /\ _read_message(f).value = JNull
        /\ Stops(f)

\* lines 205 and 214: int() or decode() raises out of _read_message
ReadRaises ==
    /\ pc = "loop"
    /\ ~shutdown
    /\ \E f \in RawFrames :
        /\ _read_message(f).raises # ""
        /\ Crashes(f, _read_message(f).raises)

\* lines 728-729: a document that is no dict and does not contain "method"
SkipNonObject ==
    /\ pc = "loop"
    /\ ~shutdown
    /\ \E f \in RawFrames :
        /\ _read_message(f).raises = ""
        /\ _read_message(f).value # JNull
        /\ LoopOutcome(_read_message(f).value) = "continue"
        /\ lastRead' = FrameRead(f)
    /\ pc' = "handled"
    /\ UNCHANGED <<initialized, shutdown, defaults, request, entered, ctx, proc,
                   runs, raised, written, uncaught, framing>>

\* lines 728 and 731, outside the try of line 732: the test or request.get raises
NonObjectRaises ==
    /\ pc = "loop"
    /\ ~shutdown
    /\ \E f \in RawFrames :
        /\ _read_message(f).raises = ""
        /\ _read_message(f).value # JNull
        /\ LoopOutcome(_read_message(f).value) # "continue"
        /\ Crashes(f, LoopOutcome(_read_message(f).value))

\* line 723: the loop condition fails
LoopExit ==
    /\ pc = "loop"
    /\ shutdown
    /\ pc' = "done"
    /\ UNCHANGED <<initialized, shutdown, defaults, request, entered, ctx, proc,
                   runs, raised, written, lastRead, uncaught, framing>>

RunLog(c, res, how, p) ==
    [cmd |-> c.cmd, timeout_ms |-> c.timeout_ms, stage |-> c.stage, result |-> res,
     how |-> how, proc |-> p]

\* KmsgRunner.run returns res to the handler, which goes on
Return(res, how, p) ==
    /\ runs' = Append(runs, RunLog(ctx, res, how, p))
    /\ proc' = p
    /\ Complete(request, AfterRun(ctx, res))
    /\ UNCHANGED <<initialized, shutdown, defaults, request, entered, lastRead,
                   uncaught, framing>>

\* lines 59-66: Popen starts the program
PopenStarts ==
    /\ pc = "popen"
    /\ pc' = "communicate"
    /\ proc' = "running"
    /\ UNCHANGED <<initialized, shutdown, defaults, request, entered, ctx, runs,
                   raised, written, lastRead, uncaught, framing>>

\* lines 67-75: Popen raises OSError
PopenFails ==
    /\ pc = "popen"
    /\ \E exc \in StartErrors, l \in Latencies :
        Return(OSErrorResult(exc, l), "oserror", "none")

\* lines 78-86: the program exits within the timeout
ProcessExits ==
    /\ pc = "communicate"
    /\ \E rc \in ExitCodes, out \in Stdouts, err \in Stderrs, l \in Latencies :
        Return(ExitedResult(rc, out, err, l), "exited", "exited")

\* line 87: communicate raises TimeoutExpired
TimeoutExpired ==
    /\ pc = "communicate"
    /\ pc' = "kill"
    /\ UNCHANGED <<initialized, shutdown, defaults, request, entered, ctx, proc,
                   runs, raised, written, lastRead, uncaught, framing>>

\* the timed-out process is not killed
KillSkipped ==
    /\ pc = "kill"
    /\ pc' = "drain"
    /\ UNCHANGED <<initialized, shutdown, defaults, request, entered, ctx, proc, runs,
                   raised, written, lastRead, uncaught, framing>>

\* line 88: proc.kill()
Kill ==
    /\ pc = "kill"
    /\ pc' = "drain"
    /\ proc' = "killed"
    /\ UNCHANGED <<initialized, shutdown, defaults, request, entered, ctx, runs,
                   raised, written, lastRead, uncaught, framing>>

\* lines 89-97: the draining communicate() reaps the killed process
Drain ==
    /\ pc = "drain"
    /\ \E out \in Stdouts, err \in Stderrs, l \in Latencies :
        Return(TimedOutResult(out, err, ctx.timeout_ms + l), "timeout",
               IF proc = "killed" THEN "reaped" ELSE proc)

Next ==
    \/ ReadMessage
    \/ SkipMessage
    \/ NextIteration
    \/ EndOfStream
    \/ ReadNoMessage
    \/ ReadRaises
    \/ SkipNonObject
    \/ NonObjectRaises
    \/ LoopExit
    \/ PopenStarts
    \/ PopenFails
    \/ ProcessExits
    \/ TimeoutExpired
    \/ Kill
    \/ Drain

Spec == Init /\ [][Next]_vars

-----------------------------------------------------------------------------
(* The framing codec on its own: frames written by _write_message go through a
   pipe to _read_message. *)

ServerIdle ==
    UNCHANGED <<initialized, shutdown, defaults, pc, request, entered, ctx, proc,
                runs, raised, written, lastRead, uncaught>>

\* lines 218-224: one payload is framed and written
WriteFrame ==
    /\ Len(sent) < MaxFrames
    /\ \E payload \in Payloads :
        /\ pipe' = pipe \o _write_message(payload)
        /\ sent' = Append(sent, payload)
    /\ UNCHANGED received
    /\ ServerIdle

\* lines 188-216: one call of _read_message on the bytes in the pipe
ReadFrame ==
    /\ pipe # <<>>
    /\ received' = Append(received, [raises |-> _read_message(pipe).raises,
                                     value |-> _read_message(pipe).value])
    /\ pipe' = _read_message(pipe).rest
    /\ UNCHANGED sent
    /\ ServerIdle

NextFraming ==
    \/ WriteFrame
    \/ ReadFrame

SpecFraming == Init /\ [][NextFraming]_vars

-----------------------------------------------------------------------------
(* Observations used by the properties *)

\* the handler is inside KmsgRunner.run
InRun == pc \in {"popen", "communicate", "kill", "drain"}

\* calls of KmsgRunner.run made so far for the current message
RunCalls == Len(runs) + (IF InRun THEN 1 ELSE 0)

\* argument vectors handed to KmsgRunner.run so far for the current message
Cmds == [i \in 1..RunCalls |-> IF i <= Len(runs) THEN runs[i].cmd ELSE ctx.cmd]

Arguments == request.params.arguments
ConfirmTrue == Arguments.confirm = PyBool(TRUE)

\* the text of a required argument as the handler sees it
TextOf(v) == Strip(Str(Get(v, PyStr(""))))

\* the current message was answered with a tools/call result
HasEnvelope ==
    /\ Len(written) = 1
    /\ "result" \in DOMAIN written[1]
    /\ entered \in ToolNames

TheEnvelope == written[1].result.structuredContent

\* the envelope is an error envelope with this code and latency
IsErrorEnvelope(code, latency_ms) ==
    /\ HasEnvelope
    /\ TheEnvelope.ok = FALSE
    /\ TheEnvelope.error.code = code
    /\ TheEnvelope.meta.latency_ms = latency_ms

\* the current message was answered with this protocol error
WroteError(code) ==
    /\ Len(written) = 1
    /\ "error" \in DOMAIN written[1]
    /\ written[1].error.code = code
    /\ written[1].id = request.id

-----------------------------------------------------------------------------
(* C1: a kmsg_send or kmsg_send_image call with confirm=true never calls the
   process executor, whatever its other arguments and the session defaults. *)
C1_ConfirmStartsNoProcess ==
    (entered \in {"kmsg_send", "kmsg_send_image"} /\ ConfirmTrue)
        => (RunCalls = 0 /\ proc = "none" /\ pc = "handled")

C1_Witness ==
    /\ pc = "handled"
    /\ entered = "kmsg_send_image"
    /\ ConfirmTrue
    /\ Arguments.image_path = PyStr("/img.png")
    /\ Arguments.deep_recovery = PyBool(TRUE)
    /\ defaults.deep_recovery
    /\ HasEnvelope

(* C2 as stated: every capability call (read included) with confirm=true returns
   ok=false, code CONFIRMATION_REQUIRED and latency 0. *)
C2_Original ==
    (pc = "handled" /\ entered \in ToolNames /\ ConfirmTrue)
        => IsErrorEnvelope("CONFIRMATION_REQUIRED", 0)

(* C2 amended: a kmsg_send or kmsg_send_image call with confirm=true whose chat and
   message / image_path are non-empty after str() and strip() returns ok=false, code
   CONFIRMATION_REQUIRED and latency 0, and no process ran. *)
C2_ConfirmEnvelope ==
    (/\ pc = "handled"
     /\ entered \in {"kmsg_send", "kmsg_send_image"}
     /\ ConfirmTrue
     /\ TextOf(Arguments.chat) # ""
     /\ entered = "kmsg_send" => TextOf(Arguments.message) # ""
     /\ entered = "kmsg_send_image" => TextOf(Arguments.image_path) # "")
        => (IsErrorEnvelope("CONFIRMATION_REQUIRED", 0) /\ runs = <<>>)

C2_Witness ==
    /\ pc = "handled"
    /\ entered = "kmsg_send"
    /\ ConfirmTrue
    /\ Arguments.chat = PyStr("Alice")
    /\ Arguments.message = PyStr("hello")
    /\ IsErrorEnvelope("CONFIRMATION_REQUIRED", 0)

(* C3 as stated: tools/call while uninitialized yields an error response with code
   -32002, starts no process and enters no tool handler. *)
C3_Original ==
    (request.method = "tools/call" /\ ~initialized)
        => (/\ pc = "handled"
            /\ WroteError(NOT_INITIALIZED)
            /\ RunCalls = 0
            /\ entered = "none")

(* C3 amended: tools/call while uninitialized raises the -32002 protocol error,
   which is written as the response when the message has a non-null id and dropped
   when it has none; in both cases no process is started and no tool handler is
   entered. *)
C3_NotInitialized ==
    (request.method = "tools/call" /\ ~initialized)
        => (/\ pc = "handled"
            /\ raised.code = NOT_INITIALIZED
            /\ request.id # NullId => WroteError(NOT_INITIALIZED)
            /\ request.id = NullId => written = <<>>
            /\ RunCalls = 0
            /\ proc = "none"
            /\ entered = "none")

C3_Witness ==
    /\ pc = "handled"
    /\ request.method = "tools/call"
    /\ ~initialized
    /\ request.params.name = PyStr("kmsg_send")
    /\ Arguments.chat = PyStr("Alice")
    /\ Arguments.message = PyStr("hello")
    /\ Arguments.confirm = Absent
    /\ WroteError(NOT_INITIALIZED)

\* the deep-recovery flag in effect for the current call
EffectiveDeep == Bool(Get(Arguments.deep_recovery, PyBool(defaults.deep_recovery)))

HasFlag(cmd, flag) == \E i \in 1..Len(cmd) : cmd[i] = flag

\* the first run failed, without timing out, as CHAT_NOT_FOUND, with deep-recovery off
RetryCondition(first) ==
    /\ ~first.timed_out
    /\ first.returncode # 0
    /\ _extract_error_code(Combined(first)) = "CHAT_NOT_FOUND"
    /\ ~EffectiveDeep

(* C4: in a kmsg_read call a second run is issued if and only if the first run did
   not time out, exited non-zero, classified as CHAT_NOT_FOUND, and deep-recovery
   was off; the second run carries --deep-recovery; there is never a third run. *)
C4_RetryExactlyOnce ==
    entered = "kmsg_read" =>
        /\ RunCalls <= 2
        /\ RunCalls = 2 =>
              /\ RetryCondition(runs[1].result)
              /\ ~HasFlag(Cmds[1], "--deep-recovery")
              /\ HasFlag(Cmds[2], "--deep-recovery")
        /\ (pc = "handled" /\ RunCalls = 1) => ~RetryCondition(runs[1].result)

C4_Witness ==
    /\ pc = "handled"
    /\ entered = "kmsg_read"
    /\ Len(runs) = 2
    /\ runs[2].result.returncode = 1
    /\ ~runs[2].result.timed_out
    /\ _extract_error_code(Combined(runs[2].result)) = "CHAT_NOT_FOUND"
    /\ IsErrorEnvelope("CHAT_NOT_FOUND", runs[2].result.latency_ms)

(* C5: a kmsg_send or kmsg_send_image call calls the process executor at most
   once, whatever the run's exit code, timeout or error kind. *)
C5_SendNeverRetries ==
    entered \in {"kmsg_send", "kmsg_send_image"} => RunCalls <= 1

C5_Witness ==
    /\ pc = "handled"
    /\ entered = "kmsg_send"
    /\ ~EffectiveDeep
    /\ Len(runs) = 1
    /\ runs[1].result.returncode = 1
    /\ IsErrorEnvelope("CHAT_NOT_FOUND", runs[1].result.latency_ms)

(* C6: a run that does not finish within its timeout returns exit_code 124 and
   timed_out=true after the process was killed and reaped; timed_out=true is
   returned only by such runs; outside KmsgRunner.run no process is alive. *)
C6_TimeoutKillsAndReports ==
    /\ \A i \in 1..Len(runs) :
          /\ runs[i].how = "timeout" =>
                /\ runs[i].result.returncode = 124
                /\ runs[i].result.timed_out
                /\ runs[i].proc = "reaped"
          /\ runs[i].result.timed_out => runs[i].how = "timeout"
    /\ pc \notin {"communicate", "kill", "drain"} => proc \notin {"running", "killed"}

C6_Witness ==
    /\ pc = "handled"
    /\ Len(runs) = 1
    /\ runs[1].how = "timeout"
    /\ runs[1].result.timed_out
    /\ runs[1].result.stdout # <<>>
    /\ proc = "reaped"

(* C7: whenever a run made for a capability call times out (the first run, or the
   deep-recovery retry of a read), the envelope of the call has code PROCESS_TIMEOUT
   and carries that run's stdout and stderr. *)
C7_TimeoutEnvelope ==
    \A i \in 1..Len(runs) :
        (pc = "handled" /\ entered \in ToolNames /\ runs[i].result.timed_out)
            => /\ IsErrorEnvelope("PROCESS_TIMEOUT", runs[i].result.latency_ms)
               /\ TheEnvelope.error.raw_stdout = runs[i].result.stdout
               /\ TheEnvelope.error.raw_stderr = runs[i].result.stderr

\* the limit the claim expects for a requested integer
ExpectedLimit(n) == IF n < 1 THEN 1 ELSE IF n > 100 THEN 100 ELSE n

(* C8: in every run of a kmsg_read call the value after --limit is an integer in
   1..100: the requested integer when it is in 1..100, 1 when it is below 1, 100
   when it is above 100, 20 when limit is omitted; the retry uses the same value. *)
C8_LimitClamped ==
    entered = "kmsg_read" =>
        \A i \in 1..RunCalls :
            /\ Cmds[i][5] = "--limit"
            /\ Cmds[i][6] \in {ToString(k) : k \in 1..100}
            /\ Arguments.limit.kind = "int" =>
                  Cmds[i][6] = ToString(ExpectedLimit(Arguments.limit.n))
            /\ Arguments.limit.kind = "absent" => Cmds[i][6] = "20"
            /\ Cmds[i][6] = Cmds[1][6]

C8_Witness ==
    /\ pc = "handled"
    /\ entered = "kmsg_read"
    /\ Arguments.limit = PyInt(500)
    /\ Len(runs) = 2
    /\ runs[1].cmd[6] = "100"
    /\ runs[2].cmd[6] = "100"

\* a required string argument that is missing, null, not a string, or blank
BadRequired(v) == v.kind # "str" \/ TextOf(v) = ""

\* the arguments of the current call fail validation
InvalidArguments ==
    \/ BadRequired(Arguments.chat)
    \/ entered = "kmsg_send" /\ BadRequired(Arguments.message)
    \/ entered = "kmsg_send_image" /\ BadRequired(Arguments.image_path)
    \/ entered = "kmsg_send_image" /\ ~isfile(TextOf(Arguments.image_path))
    \/ entered = "kmsg_read" /\ Arguments.limit.kind \in {"none", "str"}
                             /\ Arguments.limit.s \notin NumericStrings

(* C9: a capability call whose arguments fail validation (a required field missing
   or null, a non-string chat, a nonexistent attachment path) returns an
   INVALID_ARGUMENT envelope with latency 0 and starts no process. *)
C9_InvalidArgument ==
    (entered \in ToolNames /\ InvalidArguments)
        => (/\ pc = "handled"
            /\ RunCalls = 0
            /\ IsErrorEnvelope("INVALID_ARGUMENT", 0))

\* a message with this method is dispatched while the session is uninitialized
DispatchedUninitialized(methods) ==
    /\ pc = "loop"
    /\ ~initialized
    /\ request'.method \in methods

\* the handler left the session state alone and ran nothing
NoEffect ==
    /\ pc' = "handled"
    /\ UNCHANGED <<initialized, shutdown, defaults>>
    /\ runs' = <<>>
    /\ proc' = "none"
    /\ entered' = "none"

(* C10 as stated: while uninitialized every method other than initialize and ping
   (notifications/initialized included) fails with the -32002 error and has no
   effect on the session state. *)
C10_Original ==
    [][DispatchedUninitialized(Methods \ {"initialize", "ping"})
          => (raised'.code = NOT_INITIALIZED /\ NoEffect)]_vars

(* C10 amended: while uninitialized, initialize and ping are accepted and
   notifications/initialized is silently ignored (no error, no response); every
   other method (tools/list, tools/call, shutdown, exit, an unknown name) raises
   the -32002 error, written as a response when the message has a non-null id;
   none of these has an effect on the session state. *)
C10_UninitializedRejects ==
    [][/\ DispatchedUninitialized(Methods \ {"initialize", "ping", "notifications/initialized"})
          => /\ raised'.code = NOT_INITIALIZED
             /\ raised'.message = <<"Server not initialized">>
             /\ request'.id # NullId =>
                   written' = <<_json_rpc_error(request'.id, -32002, <<"Server not initialized">>, <<>>)>>
             /\ request'.id = NullId => written' = <<>>
             /\ NoEffect
       /\ DispatchedUninitialized({"notifications/initialized"})
          => (raised' = NoError /\ written' = <<>> /\ NoEffect)
       /\ DispatchedUninitialized({"ping"})
          => (raised' = NoError /\ written' = <<_json_rpc_result(request'.id, <<>>)>> /\ NoEffect)]_vars

C10_Witness ==
    /\ pc = "handled"
    /\ ~initialized
    /\ ~shutdown
    /\ request.method = "shutdown"
    /\ request.id # NullId
    /\ WroteError(NOT_INITIALIZED)

-----------------------------------------------------------------------------
\* the last finished run of the current message
LastRun == runs[Len(runs)]

\* the current message was answered with exactly one result
WroteResult ==
    /\ Len(written) = 1
    /\ "result" \in DOMAIN written[1]
    /\ written[1].id = request.id

(* C11: every initialize call makes the session ready and is answered with a
   successful result, whether the version probe or the status probe succeeds,
   exits non-zero, times out or cannot be started; the result's metadata
   carries the probe outcome: the failed stage with its output and a note, or
   the version text of a successful probe. *)
C11_InitializeAlwaysReady ==
    request.method = "initialize" =>
        /\ initialized
        /\ raised = NoError
        /\ pc \in {"popen", "communicate", "kill", "drain", "handled"}
        /\ pc = "handled" =>
            /\ WroteResult
            /\ Len(runs) \in {1, 2}
            /\ LET detail == written[1].result.meta.startup_check IN
               IF LastRun.result.returncode # 0
               THEN /\ detail.stage = (IF Len(runs) = 1 THEN "version" ELSE "status")
                    /\ detail.stdout = LastRun.result.stdout
                    /\ detail.stderr = LastRun.result.stderr
                    /\ "note" \in DOMAIN detail
               ELSE /\ Len(runs) = 2
                    /\ "stage" \notin DOMAIN detail
                    /\ detail.version = runs[1].result.stdout

C11_Witness ==
    /\ pc = "handled"
    /\ request.method = "initialize"
    /\ initialized
    /\ WroteResult
    /\ Len(runs) = 2
    /\ LastRun.how = "timeout"
    /\ written[1].result.meta.startup_check.stage = "status"

(* C12 as stated: in every session state and for every message, with or
   without an id, handling notifications/initialized or exit writes no
   outbound message. *)
C12_Original ==
    request.method \in {"notifications/initialized", "exit"} => written = <<>>

(* C12 amended: handling notifications/initialized never writes an outbound
   message, in either session state and with or without an id; handling exit
   in the ready state writes none either and sets the shutdown flag; an exit
   received while uninitialized raises the -32002 error, which is written as
   an error response exactly when the message carries a non-null id. *)
C12_NotificationsUnanswered ==
    /\ request.method = "notifications/initialized" =>
          (pc = "handled" /\ written = <<>> /\ raised = NoError)
    /\ (request.method = "exit" /\ initialized) =>
          (pc = "handled" /\ written = <<>> /\ raised = NoError /\ shutdown)
    /\ (request.method = "exit" /\ ~initialized) =>
          /\ pc = "handled"
          /\ raised.code = NOT_INITIALIZED
          /\ ~shutdown
          /\ request.id # NullId => WroteError(NOT_INITIALIZED)
          /\ request.id = NullId => written = <<>>

C12_Witness ==
    /\ pc = "handled"
    /\ request.method = "exit"
    /\ request.id # NullId
    /\ initialized
    /\ shutdown
    /\ written = <<>>

\* the step reads a message with this method and dispatches it
Dispatches(methods) ==
    /\ pc = "loop"
    /\ lastRead' = ObjectRead
    /\ request'.method \in methods

(* C13: in the ready state a shutdown request sets the shutdown flag and its
   empty success result is still written; once the flag is set the serve loop
   reads and dispatches no further message: it only finishes the iteration and
   leaves the loop. *)
C13_ShutdownAnsweredThenStops ==
    [][/\ (initialized /\ Dispatches({"shutdown"})) =>
             /\ shutdown'
             /\ pc' = "handled"
             /\ raised' = NoError
             /\ written' = <<_json_rpc_result(request'.id, <<>>)>>
       /\ shutdown =>
             /\ shutdown'
             /\ \/ pc = "handled" /\ pc' = "loop"
                \/ pc = "loop" /\ pc' = "done"
             /\ lastRead' = NothingRead
             /\ request' \in {request, NoRequest}
             /\ written' \in {written, <<>>}
             /\ runs' \in {runs, <<>>}
             /\ UNCHANGED <<initialized, uncaught>>]_vars

C13_Witness ==
    /\ pc = "handled"
    /\ initialized
    /\ shutdown
    /\ request.method = "shutdown"
    /\ WroteResult
    /\ written[1].result = <<>>

(* C14 as stated: in every session state, uninitialized or ready, a shutdown
   or exit message sets the shutdown flag. *)
C14_Original ==
    [][Dispatches({"shutdown", "exit"}) => (~shutdown /\ shutdown')]_vars

(* C14 amended: in the ready state a shutdown or exit message takes the
   shutdown flag from false to true, and the loop then ends without reading a
   later message; in the uninitialized state both are rejected with the
   -32002 error, the flag stays false and the loop goes on; the loop also
   ends when the input is at end-of-stream. *)
C14_ShutdownEndsLoop ==
    [][/\ (initialized /\ Dispatches({"shutdown", "exit"})) =>
             (~shutdown /\ shutdown' /\ pc' = "handled")
       /\ (~initialized /\ Dispatches({"shutdown", "exit"})) =>
             (~shutdown' /\ raised'.code = NOT_INITIALIZED /\ pc' = "handled")
       /\ (shutdown /\ pc = "loop") => (pc' = "done" /\ lastRead' = lastRead)
       /\ (shutdown /\ pc = "handled") => (pc' = "loop" /\ shutdown')
       /\ lastRead' = FrameRead(AtEof) => pc' = "done"
       /\ pc # "done"]_vars

C14_Witness ==
    /\ pc = "done"
    /\ initialized
    /\ shutdown
    /\ lastRead = NothingRead

C14_WitnessEndOfStream ==
    /\ pc = "done"
    /\ lastRead = FrameRead(AtEof)
    /\ initialized
    /\ ~shutdown

\* the last frame read held a JSON document that _read_message returned
DecodedDocument ==
    /\ lastRead.what = "frame"
    /\ _read_message(lastRead.frame).raises = ""
    /\ _read_message(lastRead.frame).value # JNull

(* C15: no decoded message ends the serve loop through an unexpected failure:
   a failure raised while handling it (a JSON body that is no object included)
   is answered with the -32000 "Internal server error" response, or dropped
   when the message has no id, and the loop goes on with the next message. *)
C15_NoMessageEndsLoop ==
    /\ (DecodedDocument \/ lastRead = ObjectRead) =>
          (pc # "crashed" /\ uncaught = "")
    /\ (pc = "handled" /\ raised.code = INTERNAL_ERROR) =>
          /\ ~shutdown
          /\ request.id # NullId => WroteError(INTERNAL_ERROR)
          /\ request.id = NullId => written = <<>>

\* the tool-level codes of an error envelope
ToolErrorCodes ==
    {"INVALID_ARGUMENT", "CONFIRMATION_REQUIRED", "PROCESS_TIMEOUT", "KMSG_BIN_NOT_FOUND",
     "KAKAO_WINDOW_UNAVAILABLE", "CHAT_NOT_FOUND", "ACCESSIBILITY_PERMISSION_DENIED",
     "INVALID_JSON_OUTPUT", "UNKNOWN_EXEC_FAILURE"}

(* C16: every tools/call made in the ready state that names one of the three
   capabilities with object arguments is answered with a JSON-RPC result, never
   with an error; every failure of the underlying action is the payload of
   that result, with ok=false and a tool-level code. *)
C16_ToolFailureIsResult ==
    (pc = "handled" /\ entered \in ToolNames) =>
        /\ raised = NoError
        /\ HasEnvelope
        /\ written[1].id = request.id
        /\ ~TheEnvelope.ok => TheEnvelope.error.code \in ToolErrorCodes

\* the method names _handle_request knows
KnownMethods ==
    {"initialize", "notifications/initialized", "ping", "tools/list", "tools/call",
     "shutdown", "exit"}

(* C17 as stated: in whichever state the session is, a request whose method
   name is not recognized raises the method-not-found error -32601 with the
   method name in its message. *)
C17_Original ==
    (pc = "handled" /\ request.method \notin KnownMethods \cup {NoMethod}) =>
        /\ raised.code = METHOD_NOT_FOUND
        /\ raised.message = <<"Method not found: ", request.method>>

(* C17 amended: in the ready state a request whose method name is not
   recognized raises the -32601 error whose message contains the method name,
   written as the response when the message has a non-null id and dropped
   otherwise; in the uninitialized state such a request raises the -32002
   "Server not initialized" error instead. *)
C17_MethodNotFound ==
    (pc = "handled" /\ request.method \notin KnownMethods \cup {NoMethod}) =>
        /\ initialized =>
             /\ raised = [code |-> METHOD_NOT_FOUND,
                          message |-> <<"Method not found: ", request.method>>]
             /\ request.id # NullId =>
                   /\ WroteError(METHOD_NOT_FOUND)
                   /\ written[1].error.message = <<"Method not found: ", request.method>>
             /\ request.id = NullId => written = <<>>
        /\ ~initialized =>
             /\ raised.code = NOT_INITIALIZED
             /\ request.id # NullId => WroteError(NOT_INITIALIZED)
             /\ request.id = NullId => written = <<>>
        /\ runs = <<>>
        /\ ~shutdown

C17_Witness ==
    /\ pc = "handled"
    /\ initialized
    /\ request.method = "bogus/method"
    /\ request.id # NullId
    /\ WroteError(METHOD_NOT_FOUND)

\* the frames of the payloads sent[i], ..., one after the other
RECURSIVE FramesFrom(_)
FramesFrom(i) == IF i > Len(sent) THEN <<>> ELSE _write_message(sent[i]) \o FramesFrom(i + 1)

(* C18: a frame written by the write side and fed to the read side decodes to
   exactly the payload written and consumes exactly the bytes of that frame, so
   consecutive frames are decoded one after the other, in order. *)
C18_FramingRoundTrip ==
    /\ Len(received) <= Len(sent)
    /\ \A i \in 1..Len(received) :
          received[i] = [raises |-> "", value |-> sent[i]]
    /\ pipe = FramesFrom(Len(received) + 1)

C18_Witness ==
    /\ Len(sent) = MaxFrames
    /\ Len(received) = MaxFrames
    /\ pipe = <<>>
    /\ \E i \in 2..Len(sent) :
          /\ received[i].value = sent[i]
          /\ received[i].value # received[i - 1].value
          /\ \E k \in 1..Len(_write_message(sent[i])) : _write_message(sent[i])[k] = "xEA"

\* frames without a content-length header, with a content-length of zero, and
\* with a body that is not JSON text
NoMessageFrames ==
    {<<CR, LF>>,
     <<"X", "-", "T", "y", "p", "e", ":", " ", "j", "s", "o", "n", LF, LF>>,
     Framed(<<"0">>, <<>>),
     Framed(<<"1">>, <<"{">>),
     Framed(<<"2">>, <<"{", "]">>)}

(* C19: a frame whose content-length is zero or absent, or whose body is not
   valid JSON, is treated like end-of-stream: the serve loop stops, nothing is
   written for it, nothing else changes, and no step follows the end of the
   loop, so a later well-formed message is never dispatched. *)
C19_BadFrameEndsLoop ==
    [][/\ (pc = "loop" /\ lastRead'.what = "frame" /\ lastRead'.frame \in NoMessageFrames) =>
             /\ pc' = "done"
             /\ written' = <<>>
             /\ uncaught' = ""
             /\ UNCHANGED <<initialized, shutdown, request, entered, runs, raised, proc>>
       /\ (pc = "loop" /\ lastRead' = FrameRead(AtEof)) =>
             /\ pc' = "done"
             /\ written' = <<>>
             /\ uncaught' = ""
             /\ UNCHANGED <<initialized, shutdown, request, entered, runs, raised, proc>>
       /\ pc # "done"]_vars

C19_Witness ==
    /\ pc = "done"
    /\ lastRead = FrameRead(Framed(<<"1">>, <<"{">>))
    /\ initialized
    /\ ~shutdown
    /\ written = <<>>

C19_WitnessZeroLength ==
    /\ pc = "done"
    /\ lastRead = FrameRead(Framed(<<"0">>, <<>>))
    /\ written = <<>>

C19_WitnessNoLength ==
    /\ pc = "done"
    /\ lastRead = FrameRead(<<CR, LF>>)
    /\ written = <<>>

\* the message just read has no method: a dict without the key, or a document
\* that is no dict and does not contain "method"
Skipped ==
    \/ lastRead = ObjectRead /\ request.method = NoMethod
    \/ lastRead.what = "frame" /\ pc = "handled"

(* C20: a decoded message without a method field is silently discarded:
   nothing is written, no process is started, initialized and shutdown keep
   their values, no error is raised, and the loop goes on to read the next
   message. *)
C20_NoMethodDiscarded ==
    [][/\ (pc = "loop" /\ Skipped') =>
             /\ pc' = "handled"
             /\ written' = <<>>
             /\ runs' = <<>>
             /\ proc' = "none"
             /\ entered' = "none"
             /\ raised' = NoError
             /\ uncaught' = ""
             /\ UNCHANGED <<initialized, shutdown, defaults>>
       /\ Skipped =>
             /\ pc = "handled"
             /\ pc' = "loop"
             /\ ~shutdown'
             /\ written' = <<>>
             /\ UNCHANGED <<initialized, shutdown, defaults>>]_vars

C20_Witness ==
    /\ pc = "handled"
    /\ lastRead = ObjectRead
    /\ request.method = NoMethod
    /\ request.id # NullId
    /\ initialized
    /\ written = <<>>
    /\ runs = <<>>

C20_WitnessNonObject ==
    /\ pc = "handled"
    /\ lastRead = FrameRead(FrameOf(JList(<<>>)))
    /\ written = <<>>

\* the step reads the next inbound message or frame
ReadsNext == lastRead' # lastRead /\ lastRead'.what # "nothing"

\* no process started for the current message is still alive
NoProcessAlive == proc \in {"none", "exited", "reaped"}

(* C21: requests are handled strictly one at a time: a message is read only at
   the top of the loop, after the previous iteration is over; while a run is in
   progress nothing is read or written; a process is started only when no
   earlier one is alive; the response is written when the handler is done,
   after all of its runs (a read retry included) have ended, and carries the
   id of the request being handled, before the next message is read. *)
C21_OneRequestAtATime ==
    [][/\ ReadsNext => (pc = "loop" /\ ~InRun /\ NoProcessAlive /\ written = <<>>)
       /\ pc = "popen" => NoProcessAlive
       /\ (proc' = "running" /\ proc # "running") => pc = "popen"
       /\ InRun => (request' = request /\ lastRead' = lastRead /\ written = <<>>)
       /\ (written' # written /\ written' # <<>>) =>
             /\ pc' = "handled"
             /\ pc # "handled"
             /\ NoProcessAlive'
             /\ Len(written') = 1
             /\ written'[1].id = request'.id
       /\ pc = "handled" => (pc' = "loop" /\ NoProcessAlive /\ lastRead' = NothingRead)]_vars

C21_Witness ==
    /\ pc = "handled"
    /\ entered = "kmsg_read"
    /\ Len(runs) = 2
    /\ runs[1].proc = "exited"
    /\ runs[2].how = "timeout"
    /\ proc = "reaped"
    /\ WroteResult

\* the classifier's table: the error kinds in priority order, and their matchers
ErrorKinds ==
    <<"KMSG_BIN_NOT_FOUND", "KAKAO_WINDOW_UNAVAILABLE", "CHAT_NOT_FOUND",
      "ACCESSIBILITY_PERMISSION_DENIED">>

Matches(kind, text) ==
    CASE kind = "KMSG_BIN_NOT_FOUND" ->
            \E i \in 1..Len(text) : Lower(text[i]) \in {"no such file or directory", "not found"}
      [] kind = "KAKAO_WINDOW_UNAVAILABLE" -> \E i \in 1..Len(text) : text[i] = "WINDOW_NOT_READY"
      [] kind = "CHAT_NOT_FOUND" -> \E i \in 1..Len(text) : text[i] = "SEARCH_MISS"
      [] kind = "ACCESSIBILITY_PERMISSION_DENIED" ->
            \E i \in 1..Len(text) : text[i] \in {"Accessibility", "son-swiun sayong"}

\* the earliest kind of the table whose matcher matches, else unknown
FirstMatch(text) ==
    IF \E k \in 1..Len(ErrorKinds) : Matches(ErrorKinds[k], text)
    THEN ErrorKinds[CHOOSE k \in 1..Len(ErrorKinds) :
                       /\ Matches(ErrorKinds[k], text)
                       /\ \A j \in 1..(k - 1) : ~Matches(ErrorKinds[j], text)]
    ELSE "UNKNOWN_EXEC_FAILURE"

\* the run failed without timing out, so its output is classified
Classified(r) == r.returncode # 0 /\ ~r.timed_out

(* C22: the output of a failed run is classified by the first matcher, in the
   order binary-absent phrase, window-not-ready marker, search-miss marker,
   permission marker, else unknown, however many matchers match; the envelope
   carries that kind and the kind's hint; a first read run whose output holds
   a not-found phrase and the SEARCH_MISS marker is KMSG_BIN_NOT_FOUND and is
   not retried. *)
C22_ClassifierPriority ==
    (pc = "handled" /\ entered \in ToolNames /\ runs # <<>> /\ Classified(LastRun.result)) =>
        /\ HasEnvelope
        /\ ~TheEnvelope.ok
        /\ TheEnvelope.error.code = FirstMatch(Combined(LastRun.result))
        /\ TheEnvelope.error.hint = _map_hint(TheEnvelope.error.code)
        /\ \A other \in {ErrorKinds[k] : k \in 1..Len(ErrorKinds)} \cup {"UNKNOWN_EXEC_FAILURE"} :
              other # TheEnvelope.error.code => _map_hint(other) # TheEnvelope.error.hint
        /\ (entered = "kmsg_read" /\ FirstMatch(Combined(runs[1].result)) # "CHAT_NOT_FOUND") =>
              Len(runs) = 1

C22_Witness ==
    /\ pc = "handled"
    /\ entered = "kmsg_read"
    /\ ~EffectiveDeep
    /\ Len(runs) = 1
    /\ Classified(runs[1].result)
    /\ Matches("CHAT_NOT_FOUND", Combined(runs[1].result))
    /\ Matches("KMSG_BIN_NOT_FOUND", Combined(runs[1].result))
    /\ HasEnvelope
    /\ TheEnvelope.error.code = "KMSG_BIN_NOT_FOUND"

C22_WitnessWindowFirst ==
    /\ pc = "handled"
    /\ entered = "kmsg_read"
    /\ ~EffectiveDeep
    /\ Len(runs) = 1
    /\ runs[1].result.stderr = <<"SEARCH_MISS", "WINDOW_NOT_READY">>
    /\ HasEnvelope
    /\ TheEnvelope.error.code = "KAKAO_WINDOW_UNAVAILABLE"

(* C23: both session flags are monotonic: no step resets initialized or
   shutdown once it is true, a repeated initialize keeps initialized true,
   a step that handles initialize leaves shutdown as it is, and a step that
   handles shutdown or exit leaves initialized as it is. *)
C23_FlagsMonotonic ==
    [][/\ initialized => initialized'
       /\ shutdown => shutdown'
       /\ Dispatches({"initialize"}) => (initialized' /\ shutdown' = shutdown)
       /\ Dispatches({"shutdown", "exit"}) => initialized' = initialized
       /\ (initialized' # initialized) => Dispatches({"initialize"})
       /\ (shutdown' # shutdown) => (initialized /\ Dispatches({"shutdown", "exit"}))]_vars

C23_Witness ==
    /\ pc = "done"
    /\ initialized
    /\ shutdown
    /\ uncaught = ""
    /\ lastRead = NothingRead
    /\ written = <<>>

C23_WitnessInitialize ==
    /\ pc \in {"popen", "handled"}
    /\ request.method = "initialize"
    /\ initialized
    /\ ~shutdown

(* C24: each inbound message causes at most one outbound message, which
   carries the id of that message; a protocol-level error, declared or
   internal, is written only when the message has a non-null id and is
   dropped otherwise. *)
C24_AtMostOneResponse ==
    /\ Len(written) <= 1
    /\ written # <<>> =>
          /\ pc = "handled"
          /\ lastRead = ObjectRead
          /\ written[1].id = request.id
          /\ "error" \in DOMAIN written[1] <=> raised # NoError
          /\ "result" \in DOMAIN written[1] <=> raised = NoError
    /\ (pc = "handled" /\ raised # NoError) =>
          /\ raised.code \in {NOT_INITIALIZED, METHOD_NOT_FOUND, INVALID_PARAMS, INTERNAL_ERROR}
          /\ request.id = NullId => written = <<>>
          /\ request.id # NullId =>
                /\ WroteError(raised.code)
                /\ written[1].error.message = raised.message
    /\ pc \in {"done", "crashed"} => written = <<>>

C24_Witness ==
    /\ pc = "handled"
    /\ initialized
    /\ request.method = "tools/call"
    /\ request.id = NullId
    /\ raised.code = INTERNAL_ERROR
    /\ written = <<>>

C24_WitnessAnswered ==
    /\ pc = "handled"
    /\ request.id # NullId
    /\ raised.code = INVALID_PARAMS
    /\ WroteError(INVALID_PARAMS)

(* C25: in every tools/call result isError is true exactly when
   structuredContent.ok is false and the text content is the JSON
   serialization of the same structuredContent; an envelope with ok=true has
   no error, an envelope with ok=false has an error code with raw_stdout,
   raw_stderr and meta.latency_ms. *)
C25_EnvelopeShape ==
    HasEnvelope =>
        /\ written[1].result.isError = ~TheEnvelope.ok
        /\ written[1].result.content = <<[type |-> "text", text |-> JsonDumps(TheEnvelope)]>>
        /\ TheEnvelope.ok => "error" \notin DOMAIN TheEnvelope
        /\ ~TheEnvelope.ok =>
              /\ "error" \in DOMAIN TheEnvelope
              /\ {"code", "raw_stdout", "raw_stderr"} \subseteq DOMAIN TheEnvelope.error
              /\ TheEnvelope.error.code \in ToolErrorCodes
              /\ "latency_ms" \in DOMAIN TheEnvelope.meta
              /\ TheEnvelope.meta.latency_ms \in Nat
              /\ runs # <<>> =>
                    /\ TheEnvelope.error.raw_stdout = LastRun.result.stdout
                    /\ TheEnvelope.error.raw_stderr = LastRun.result.stderr
                    /\ TheEnvelope.meta.latency_ms = LastRun.result.latency_ms

C25_Witness ==
    /\ HasEnvelope
    /\ written[1].result.isError
    /\ ~TheEnvelope.ok
    /\ runs # <<>>
    /\ TheEnvelope.error.raw_stderr # <<>>
    /\ TheEnvelope.error.code = "ACCESSIBILITY_PERMISSION_DENIED"

C25_WitnessSuccess ==
    /\ HasEnvelope
    /\ ~written[1].result.isError
    /\ TheEnvelope.ok
    /\ entered = "kmsg_send"


====
